---- MODULE Spec2Model ----
(***************************************************************************)
(* Analytics request handlers of plane/api/views/analytic.py.              *)
(*                                                                         *)
(* The issue store, the saved-view store and the export task queue are the *)
(* persistent state.  A request is handled synchronously: a handler action *)
(* takes the server from idle (resp = NoResponse) to a state holding the   *)
(* response it returns, and Deliver hands the response to the client.      *)
(***************************************************************************)
EXTENDS Integers, Sequences, FiniteSets, TLC

VARIABLES
    issues,     \* Issue rows of the database (read only for this module)
    views,      \* AnalyticView rows
    queue,      \* jobs accepted by analytic_export_task.delay, oldest first
    req,        \* the request being answered, NoRequest when idle
    resp,       \* the Response the handler returned, NoResponse when idle
    calls,      \* collaborators the handler invoked for req, in call order
    queryset    \* the handler's local `queryset` at return (rows per issue)

vars == <<issues, views, queue, req, resp, calls, queryset>>

(***************************************************************************)
(* Bounds                                                                  *)
(***************************************************************************)
MaxIssues == 3      \* issues in the store
MaxViews == 2       \* saved views created through the viewset
MaxQueue == 2       \* export jobs waiting in the task queue

(***************************************************************************)
(* Python values                                                           *)
(***************************************************************************)
PyFalse == "<False>"            \* the default of .get(key, False)
PyNone == "<None>"              \* NULL column / None
Absent == "<absent>"            \* marks a parameter the request does not carry

HTTP_200_OK == 200
HTTP_201_CREATED == 201
HTTP_204_NO_CONTENT == 204
HTTP_400_BAD_REQUEST == 400
HTTP_404_NOT_FOUND == 404

\* faulty variant of Falsy: only the missing parameter is refused
FalsyOnlyDefault(v) == v = PyFalse

\* `not v` for the values a query parameter or body field takes here
Falsy(v) == v = PyFalse \/ v = ""

\* dict.get(key, False) / QueryDict.get(key, False)
Get(d, key) == IF key \in DOMAIN d THEN d[key] ELSE PyFalse

RECURSIVE SumOver(_, _)
SumOver(S, f) ==
    IF S = {} THEN 0
    ELSE LET x == CHOOSE y \in S : TRUE
         IN  f[x] + SumOver(S \ {x}, f)

(***************************************************************************)
(* The database rows the handlers read                                     *)
(***************************************************************************)
Workspaces == {"w1", "w2"}

\* Project.workspace
ProjectWorkspace == [p1 |-> "w1", p2 |-> "w1", p3 |-> "w2"]

BadId == "not-a-uuid"           \* an id parameter that is no UUID

\* State rows
State ==
    { [id |-> "s1", workspace |-> "w1", project |-> "p1", name |-> "Todo",  group |-> "backlog",   color |-> "#a3a3a3"],
      [id |-> "s2", workspace |-> "w1", project |-> "p1", name |-> "Done",  group |-> "completed", color |-> "#16a34a"],
      [id |-> "s3", workspace |-> "w1", project |-> "p2", name |-> "Doing", group |-> "started",   color |-> "#f59e0b"],
      [id |-> "s4", workspace |-> "w2", project |-> "p3", name |-> "Todo",  group |-> "unstarted", color |-> "#3b82f6"],
      [id |-> "s5", workspace |-> "w2", project |-> "p3", name |-> "Done",  group |-> "completed", color |-> "#22c55e"] }

\* Label rows
Label ==
    { [id |-> "l1", workspace |-> "w1", project |-> "p1", name |-> "bug", color |-> "#ef4444"],
      [id |-> "l2", workspace |-> "w1", project |-> "p1", name |-> "ui",  color |-> "#06b6d4"],
      [id |-> "l3", workspace |-> "w1", project |-> "p2", name |-> "bug", color |-> "#d946ef"],
      [id |-> "l4", workspace |-> "w2", project |-> "p3", name |-> "bug", color |-> "#111111"] }

StateOf(i) == CHOOSE s \in State : s.id = i.state
LabelRow(l) == CHOOSE r \in Label : r.id = l

\* Issue rows the store is drawn from.  cycles / modules are the cycle and
\* module ids of the issue's issue_cycle / issue_module link rows.
IssueRow(id, project, state, labels, cycles, modules, priority, completed_at, created_by) ==
    [id |-> id, workspace |-> ProjectWorkspace[project], project |-> project,
     state |-> state, labels |-> labels, cycles |-> cycles, modules |-> modules,
     priority |-> priority, completed_at |-> completed_at, created_by |-> created_by]

IssuePool ==
    { IssueRow("i1", "p1", "s1", {"l1", "l2"}, {"c1", "c2"}, {"m1"},       "high", PyNone,    "ann@plane.so"),
      IssueRow("i2", "p1", "s2", {"l1"},       {"c1"},       {},           "low",  "2023-01", "bob@plane.so"),
      IssueRow("i3", "p2", "s3", {},           {},           {"m1", "m2"}, "high", PyNone,    PyNone),
      IssueRow("i4", "p2", "s3", {"l3"},       {"c2"},       {"m2"},       PyNone, PyNone,    "bob@plane.so"),
      IssueRow("i5", "p3", "s4", {"l4"},       {"c1"},       {"m1"},       "low",  PyNone,    "ann@plane.so"),
      IssueRow("i6", "p3", "s5", {},           {},           {},           "high", "2023-02", "ann@plane.so") }

IssueStores == {S \in SUBSET IssuePool : Cardinality(S) <= MaxIssues}

(***************************************************************************)
(* ORM querysets: a queryset over Issue is the number of result rows each  *)
(* issue contributes.  A filter through a link table (issue_cycle,         *)
(* issue_module) joins it: one row per matching link row.                  *)
(***************************************************************************)
NoQueryset == [i \in {} |-> 0]

\* Issue.objects
Issue_objects == [i \in issues |-> 1]

\* .filter(workspace__slug=slug)
filter_workspace_slug(qs, slug) ==
    [i \in DOMAIN qs |-> IF i.workspace = slug THEN qs[i] ELSE 0]

\* .filter(project_id__in=project_ids)
filter_project_id_in(qs, project_ids) ==
    [i \in DOMAIN qs |-> IF i.project \in project_ids THEN qs[i] ELSE 0]

\* .filter(issue_cycle__cycle_id__in=cycle_ids)
filter_cycle_id_in(qs, cycle_ids) ==
    [i \in DOMAIN qs |-> qs[i] * Cardinality(i.cycles \cap cycle_ids)]

\* .filter(issue_module__module_id__in=module_ids)
filter_module_id_in(qs, module_ids) ==
    [i \in DOMAIN qs |-> qs[i] * Cardinality(i.modules \cap module_ids)]

\* faulty variant of optional_filters: a later filter replaces the earlier ones
optional_filters_last_wins(qs, project_ids, cycle_ids, module_ids) ==
    IF module_ids # {} THEN filter_module_id_in(qs, module_ids)
    ELSE IF cycle_ids # {} THEN filter_cycle_id_in(qs, cycle_ids)
    ELSE IF project_ids # {} THEN filter_project_id_in(qs, project_ids)
    ELSE qs

\* if project_ids: ... if cycle_ids: ... if module_ids: ...
optional_filters(qs, project_ids, cycle_ids, module_ids) ==
    LET q1 == IF project_ids # {} THEN filter_project_id_in(qs, project_ids) ELSE qs
        q2 == IF cycle_ids # {} THEN filter_cycle_id_in(q1, cycle_ids) ELSE q1
        q3 == IF module_ids # {} THEN filter_module_id_in(q2, module_ids) ELSE q2
    IN  q3

\* an id that is no UUID makes the __in lookup raise ValidationError
invalid_ids(project_ids, cycle_ids, module_ids) ==
    BadId \in project_ids \cup cycle_ids \cup module_ids

\* faulty variant of count: issues counted once, however many rows they have
count_distinct(qs) == Cardinality({i \in DOMAIN qs : qs[i] > 0})

\* queryset.count()
count(qs) == SumOver(DOMAIN qs, qs)

\* faulty variant of filter_state_group_in: applied to Issue.objects, not to qs
filter_state_group_in_all(qs, groups) ==
    [i \in DOMAIN qs |-> IF StateOf(i).group \in groups THEN 1 ELSE 0]

\* .filter(state__group__in=groups)
filter_state_group_in(qs, groups) ==
    [i \in DOMAIN qs |-> IF StateOf(i).group \in groups THEN qs[i] ELSE 0]

\* .filter(<field>__isnull=False)
filter_not_null(qs, field) ==
    [i \in DOMAIN qs |-> IF i[field] # PyNone THEN qs[i] ELSE 0]

\* .values(field).annotate(n=Count(...)): the rows of each value of the field
values_count(qs, field, key, n) ==
    { [k \in {key, n} |->
          IF k = key THEN v
          ELSE SumOver(DOMAIN qs, [i \in DOMAIN qs |-> IF i[field] = v THEN qs[i] ELSE 0])]
      : v \in {i[field] : i \in {j \in DOMAIN qs : qs[j] > 0}} }

\* .order_by(...): the orders of the rows that ascend in rank; rows that tie
\* come in whatever order the database returns them
order_by(rows, rank) ==
    { s \in [1..Cardinality(rows) -> rows] :
        /\ \A a, b \in DOMAIN s : a # b => s[a] # s[b]
        /\ \A a, b \in DOMAIN s : a < b => rank[s[a]] <= rank[s[b]] }

(***************************************************************************)
(* build_graph_plot (plane/utils/analytics_plot.py): counts per group of   *)
(* the x axis, sub-grouped by the segment when one is given.  Grouping by  *)
(* a related field joins it: an issue has one row per label, and one row   *)
(* with a null label when it has none.                                     *)
(***************************************************************************)
SingleValuedAxes == {"state__group", "state__name", "priority"}
MultiValuedAxes == {"labels__name"}

\* the rows of issue i with value v on the axis
axis_rows(i, axis, v) ==
    CASE axis = "state__group" -> IF StateOf(i).group = v THEN 1 ELSE 0
      [] axis = "state__name"  -> IF StateOf(i).name = v THEN 1 ELSE 0
      [] axis = "priority"     -> IF i.priority = v THEN 1 ELSE 0
      [] axis = "labels__name" ->
            IF i.labels = {} THEN (IF v = PyNone THEN 1 ELSE 0)
            ELSE Cardinality({l \in i.labels : LabelRow(l).name = v})

axis_values(axis) ==
    CASE axis = "state__group" -> {s.group : s \in State}
      [] axis = "state__name"  -> {s.name : s \in State}
      [] axis = "priority"     -> {i.priority : i \in IssuePool}
      [] axis = "labels__name" -> {l.name : l \in Label} \cup {PyNone}

build_graph_plot(qs, x_axis, y_axis, segment) ==
    LET segs == IF Falsy(segment) THEN {PyNone} ELSE axis_values(segment)
        rows(d, s) ==
            SumOver(DOMAIN qs,
                [i \in DOMAIN qs |->
                    qs[i] * axis_rows(i, x_axis, d)
                          * (IF Falsy(segment) THEN 1 ELSE axis_rows(i, segment, s))])
        groups == { [dimension |-> d, segment |-> s, count |-> rows(d, s)]
                    : d \in axis_values(x_axis), s \in segs }
    IN  {g \in groups : g.count > 0}

(***************************************************************************)
(* Responses                                                               *)
(***************************************************************************)
NoRequest == [handler |-> "none"]
NoResponse == [status |-> 0, data |-> [none |-> TRUE]]

Response(data, status) == [status |-> status, data |-> data]

AxesRequired ==
    Response([error |-> "x-axis and y-axis dimensions are required"], HTTP_400_BAD_REQUEST)
SomethingWentWrong ==
    Response([error |-> "Something went wrong please try again later"], HTTP_400_BAD_REQUEST)
DoesNotExist ==
    Response([error |-> "Analytic View Does not exist"], HTTP_400_BAD_REQUEST)

\* what a handler leaves behind: its response, the collaborators it called,
\* its queryset and the task queue
Outcome(r, c, qs, q) == [resp |-> r, calls |-> c, queryset |-> qs, queue |-> q]

Idle == resp.status = 0

Returns(request, out) ==
    /\ req' = request
    /\ resp' = out.resp
    /\ calls' = out.calls
    /\ queryset' = out.queryset
    /\ queue' = out.queue

(***************************************************************************)
(* Request parameters                                                      *)
(***************************************************************************)
AxisParams == {Absent, "", "state__group", "state__name", "labels__name", "priority"}
YAxisParams == {Absent, "", "issue_count"}
SegmentParams == {Absent, "priority"}
ProjectParams == {{}, {"p1"}, {"p2", "p3"}, {BadId}}
CycleParams == {{}, {"c1"}, {"c1", "c2"}}
ModuleParams == {{}, {"m1", "m2"}}
Emails == {"ann@plane.so", "bob@plane.so"}

\* request.GET / request.data as a dict of the parameters sent
Params(x_axis, y_axis, segment) ==
    LET sent == [x_axis |-> x_axis, y_axis |-> y_axis, segment |-> segment]
    IN  [k \in {p \in DOMAIN sent : sent[p] # Absent} |-> sent[k]]

(***************************************************************************)
(* AnalyticsEndpoint.get                                                   *)
(***************************************************************************)
OpenGroups == {"backlog", "unstarted", "started"}

\* faulty variant of color_rows: the workspace restriction is lost
color_rows_any_workspace(table, slug, project_ids) ==
    { r \in table : project_ids # {} => r.project \in project_ids }

\* State/Label.objects.filter(workspace__slug=slug[, project_id__in=project_ids])
color_rows(table, slug, project_ids) ==
    { r \in table : r.workspace = slug /\ (project_ids # {} => r.project \in project_ids) }

analytics_colors(x_axis, slug, project_ids) ==
    IF x_axis \in {"state__name", "state__group"}
    THEN LET key == IF x_axis = "state__name" THEN "name" ELSE "group"
         IN  { [k \in {key, "color"} |-> r[k]] : r \in color_rows(State, slug, project_ids) }
    ELSE IF x_axis \in {"labels__name"}
    THEN { [k \in {"name", "color"} |-> r[k]] : r \in color_rows(Label, slug, project_ids) }
    ELSE {}

analytics_color_calls(x_axis) ==
    IF x_axis \in {"state__name", "state__group"} THEN <<"State.objects">>
    ELSE IF x_axis \in {"labels__name"} THEN <<"Label.objects">>
    ELSE <<>>

AnalyticsEndpoint_get(request, slug) ==
    LET x_axis == Get(request.GET, "x_axis")
        y_axis == Get(request.GET, "y_axis")
        project_ids == request.project
        cycle_ids == request.cycle
        module_ids == request.module
        segment == Get(request.GET, "segment")
        qs == optional_filters(filter_workspace_slug(Issue_objects, slug),
                               project_ids, cycle_ids, module_ids)
    IN  IF Falsy(x_axis) \/ Falsy(y_axis)
        THEN Outcome(AxesRequired, <<>>, NoQueryset, queue)
        ELSE IF invalid_ids(project_ids, cycle_ids, module_ids)
        THEN Outcome(SomethingWentWrong, <<"Issue.objects", "capture_exception">>,
                     NoQueryset, queue)
        ELSE Outcome(
                Response([total |-> count(qs),
                          distribution |-> build_graph_plot(qs, x_axis, y_axis, segment),
                          extras |-> [colors |-> analytics_colors(x_axis, slug, project_ids)]],
                         HTTP_200_OK),
                <<"Issue.objects", "build_graph_plot">> \o analytics_color_calls(x_axis),
                qs, queue)

AnalyticsGet ==
    /\ Idle
    /\ \E slug \in Workspaces, x_axis \in AxisParams, y_axis \in YAxisParams,
          segment \in SegmentParams, project \in ProjectParams,
          cycle \in CycleParams, module \in ModuleParams :
          LET request == [handler |-> "AnalyticsEndpoint.get", slug |-> slug,
                          GET |-> Params(x_axis, y_axis, segment),
                          project |-> project, cycle |-> cycle, module |-> module]
          IN  Returns(request, AnalyticsEndpoint_get(request, slug))
    /\ UNCHANGED <<issues, views>>

(***************************************************************************)
(* DefaultAnalyticsEndpoint.get                                            *)
(***************************************************************************)
DefaultAnalyticsEndpoint_get(request, slug, month_wise, created_user) ==
    LET project_ids == request.project
        cycle_ids == request.cycle
        module_ids == request.module
        qs == optional_filters(filter_workspace_slug(Issue_objects, slug),
                               project_ids, cycle_ids, module_ids)
    IN  IF invalid_ids(project_ids, cycle_ids, module_ids)
        THEN Outcome(SomethingWentWrong, <<"Issue.objects", "print">>, NoQueryset, queue)
        ELSE Outcome(
                Response([total_issues |-> count(qs),
                          open_issues |-> count(filter_state_group_in(qs, OpenGroups)),
                          issue_completed_month_wise |-> month_wise,
                          most_issue_created_user |-> created_user],
                         HTTP_200_OK),
                <<"Issue.objects">>, qs, queue)

\* TruncMonth values in calendar order
MonthIndex == [m \in {"2023-01", "2023-02"} |-> IF m = "2023-01" THEN 1 ELSE 2]

\* the two aggregate lists of the dashboard, in the order the query returns them
default_month_wise(qs) ==
    LET rows == values_count(filter_not_null(qs, "completed_at"),
                             "completed_at", "month", "count")
    IN  order_by(rows, [r \in rows |-> MonthIndex[r.month]])

default_created_user(qs) ==
    LET rows == values_count(filter_not_null(qs, "created_by"),
                             "created_by", "created_by__email", "record_count")
    IN  order_by(rows, [r \in rows |-> 0 - r.record_count])

DefaultGet ==
    /\ Idle
    /\ \E slug \in Workspaces, project \in ProjectParams,
          cycle \in CycleParams, module \in ModuleParams :
          LET request == [handler |-> "DefaultAnalyticsEndpoint.get", slug |-> slug,
                          project |-> project, cycle |-> cycle, module |-> module]
              qs == optional_filters(filter_workspace_slug(Issue_objects, slug),
                                     project, cycle, module)
          IN  \E month_wise \in default_month_wise(qs),
                 created_user \in default_created_user(qs) :
                 Returns(request,
                         DefaultAnalyticsEndpoint_get(request, slug, month_wise, created_user))
    /\ UNCHANGED <<issues, views>>

(***************************************************************************)
(* Saved views: AnalyticView rows and AnalyticViewViewset                  *)
(***************************************************************************)
\* lookups a stored filter may use; any other keyword makes filter() raise
KnownLookups == {"project__in", "priority__in"}

NoFilter == [k \in {} |-> {}]
ViewQueries ==
    { NoFilter,
      [project__in |-> {"p1"}],
      [sub_issue |-> {"true"}] }
ViewQueryDicts ==
    { [x_axis |-> "labels__name", y_axis |-> "issue_count"],
      [y_axis |-> "issue_count"] }

\* request bodies of create and update
ViewBodies ==
    [workspace : Workspaces, query : ViewQueries, query_dict : ViewQueryDicts]

AnalyticView(id, workspace, query, query_dict) ==
    [id |-> id, workspace |-> workspace, query |-> query, query_dict |-> query_dict]

\* saved views present before the first request
SavedViews ==
    { AnalyticView(1, "w1", [project__in |-> {"p1"}],
                   [x_axis |-> "state__group", y_axis |-> "issue_count"]),
      AnalyticView(2, "w1", NoFilter,
                   [x_axis |-> "labels__name", y_axis |-> "issue_count"]),
      AnalyticView(3, "w2", [priority__in |-> {"high"}],
                   [x_axis |-> "priority", y_axis |-> "issue_count"]),
      AnalyticView(4, "w2", [sub_issue |-> {"true"}],
                   [x_axis |-> "priority"]),
      AnalyticView(5, "w2", [project__in |-> {"p3"}],
                   [y_axis |-> "issue_count"]) }

\* faulty variant of perform_create: the workspace of the request body is kept
perform_create_body_workspace(slug, id, body) ==
    AnalyticView(id, body.workspace, body.query, body.query_dict)

\* serializer.save(workspace_id=workspace.id), workspace looked up by the slug
perform_create(slug, id, body) ==
    AnalyticView(id, slug, body.query, body.query_dict)

\* super().get_queryset().filter(workspace__slug=slug)
get_queryset(slug) == {v \in views : v.workspace = slug}

\* get_object(): the row of the scoped queryset with this pk
get_object(slug, pk) == {v \in get_queryset(slug) : v.id = pk}

NotFound == Response([detail |-> "Not found."], HTTP_404_NOT_FOUND)

ViewIds == 1..MaxViews
\* ids a request may name: the rows there are, and one there is not
AnalyticIds == {v.id : v \in views} \cup {0}

ViewsetReturns(request, response) ==
    /\ req' = request
    /\ resp' = response
    /\ calls' = <<"AnalyticView.objects">>
    /\ queryset' = NoQueryset
    /\ UNCHANGED <<issues, queue>>

ViewCreate ==
    /\ Idle
    /\ Cardinality(views) < MaxViews
    /\ \E slug \in Workspaces, body \in ViewBodies,
          id \in ViewIds \ {v.id : v \in views} :
          LET row == perform_create(slug, id, body)
          IN  /\ views' = views \cup {row}
              /\ ViewsetReturns([handler |-> "AnalyticViewViewset.create", slug |-> slug,
                                 data |-> body],
                                Response(row, HTTP_201_CREATED))

ViewList ==
    /\ Idle
    /\ \E slug \in Workspaces :
          ViewsetReturns([handler |-> "AnalyticViewViewset.list", slug |-> slug],
                         Response([results |-> get_queryset(slug)], HTTP_200_OK))
    /\ UNCHANGED views

ViewRetrieve ==
    /\ Idle
    /\ \E slug \in Workspaces, pk \in AnalyticIds :
          LET request == [handler |-> "AnalyticViewViewset.retrieve", slug |-> slug, pk |-> pk]
              found == get_object(slug, pk)
          IN  IF found = {} THEN ViewsetReturns(request, NotFound)
              ELSE \E v \in found : ViewsetReturns(request, Response(v, HTTP_200_OK))
    /\ UNCHANGED views

ViewUpdate ==
    /\ Idle
    /\ \E slug \in Workspaces, pk \in AnalyticIds, body \in ViewBodies :
          LET request == [handler |-> "AnalyticViewViewset.update", slug |-> slug,
                          pk |-> pk, data |-> body]
              found == get_object(slug, pk)
          IN  IF found = {}
              THEN ViewsetReturns(request, NotFound) /\ UNCHANGED views
              ELSE \E v \in found :
                     LET row == AnalyticView(v.id, v.workspace, body.query, body.query_dict)
                     IN  /\ views' = (views \ {v}) \cup {row}
                         /\ ViewsetReturns(request, Response(row, HTTP_200_OK))

ViewDestroy ==
    /\ Idle
    /\ \E slug \in Workspaces, pk \in AnalyticIds :
          LET request == [handler |-> "AnalyticViewViewset.destroy", slug |-> slug, pk |-> pk]
              found == get_object(slug, pk)
          IN  IF found = {}
              THEN ViewsetReturns(request, NotFound) /\ UNCHANGED views
              ELSE \E v \in found :
                     /\ views' = views \ {v}
                     /\ ViewsetReturns(request, Response([deleted |-> v.id],
                                                         HTTP_204_NO_CONTENT))

(***************************************************************************)
(* SavedAnalyticEndpoint.get                                               *)
(***************************************************************************)
\* faulty variant of AnalyticView_objects_get: by primary key alone
AnalyticView_objects_get_pk(pk, slug) == {v \in views : v.id = pk}

\* AnalyticView.objects.get(pk=analytic_id, workspace__slug=slug)
AnalyticView_objects_get(pk, slug) ==
    {v \in views : v.id = pk /\ v.workspace = slug}

\* Issue.objects.filter(**filter)
filter_kwargs(qs, filter) ==
    [i \in DOMAIN qs |->
        IF /\ "project__in" \in DOMAIN filter => i.project \in filter["project__in"]
           /\ "priority__in" \in DOMAIN filter => i.priority \in filter["priority__in"]
        THEN qs[i] ELSE 0]

SavedAnalyticEndpoint_get(request, slug, analytic_id) ==
    LET found == AnalyticView_objects_get(analytic_id, slug)
    IN  IF found = {}
        THEN Outcome(DoesNotExist, <<"AnalyticView.objects">>, NoQueryset, queue)
        ELSE LET analytic_view == CHOOSE v \in found : TRUE
                 filter == analytic_view.query
                 qs == filter_kwargs(Issue_objects, filter)
                 x_axis == Get(analytic_view.query_dict, "x_axis")
                 y_axis == Get(analytic_view.query_dict, "y_axis")
                 segment == Get(request.GET, "segment")
             IN  IF ~(DOMAIN filter \subseteq KnownLookups)
                 THEN Outcome(SomethingWentWrong,
                              <<"AnalyticView.objects", "Issue.objects", "capture_exception">>,
                              NoQueryset, queue)
                 ELSE IF Falsy(x_axis) \/ Falsy(y_axis)
                 THEN Outcome(AxesRequired, <<"AnalyticView.objects", "Issue.objects">>,
                              qs, queue)
                 ELSE Outcome(
                        Response([total |-> count(qs),
                                  distribution |-> build_graph_plot(qs, x_axis, y_axis, segment)],
                                 HTTP_200_OK),
                        <<"AnalyticView.objects", "Issue.objects", "build_graph_plot">>,
                        qs, queue)

SavedGet ==
    /\ Idle
    /\ \E slug \in Workspaces, analytic_id \in AnalyticIds, segment \in SegmentParams :
          LET request == [handler |-> "SavedAnalyticEndpoint.get", slug |-> slug,
                          analytic_id |-> analytic_id,
                          GET |-> Params(Absent, Absent, segment)]
          IN  Returns(request, SavedAnalyticEndpoint_get(request, slug, analytic_id))
    /\ UNCHANGED <<issues, views>>

(***************************************************************************)
(* ExportAnalyticsEndpoint.post                                            *)
(***************************************************************************)
ExportAxisParams == {Absent, "", "priority"}
ExportYAxisParams == {Absent, "", "issue_count"}

ExportMessage(email) ==
    [message |-> <<"Once the export is ready it will be emailed to you at", email>>]

\* faulty variant of ExportAnalyticsEndpoint_post: the export is computed in
\* the request and nothing is enqueued
ExportAnalyticsEndpoint_post_inline(request, slug, delay_raises) ==
    LET x_axis == Get(request.data, "x_axis")
        y_axis == Get(request.data, "y_axis")
    IN  IF Falsy(x_axis) \/ Falsy(y_axis)
        THEN Outcome(AxesRequired, <<>>, NoQueryset, queue)
        ELSE Outcome(Response(ExportMessage(request.user.email), HTTP_200_OK),
                     <<"Issue.objects", "build_graph_plot">>,
                     filter_workspace_slug(Issue_objects, slug), queue)

ExportAnalyticsEndpoint_post(request, slug, delay_raises) ==
    LET x_axis == Get(request.data, "x_axis")
        y_axis == Get(request.data, "y_axis")
        job == [email |-> request.user.email, data |-> request.data, slug |-> slug]
    IN  IF Falsy(x_axis) \/ Falsy(y_axis)
        THEN Outcome(AxesRequired, <<>>, NoQueryset, queue)
        ELSE IF delay_raises
        THEN Outcome(SomethingWentWrong,
                     <<"analytic_export_task.delay", "capture_exception">>,
                     NoQueryset, queue)
        ELSE Outcome(Response(ExportMessage(request.user.email), HTTP_200_OK),
                     <<"analytic_export_task.delay">>,
                     NoQueryset, Append(queue, job))

ExportPost ==
    /\ Idle
    /\ Len(queue) < MaxQueue
    /\ \E slug \in Workspaces, email \in Emails, x_axis \in ExportAxisParams,
          y_axis \in ExportYAxisParams, delay_raises \in BOOLEAN :
          LET request == [handler |-> "ExportAnalyticsEndpoint.post", slug |-> slug,
                          user |-> [email |-> email],
                          data |-> Params(x_axis, y_axis, Absent),
                          delay_raises |-> delay_raises]
          IN  Returns(request, ExportAnalyticsEndpoint_post(request, slug, delay_raises))
    /\ UNCHANGED <<issues, views>>

(***************************************************************************)
(* The response leaves the server                                          *)
(***************************************************************************)
Deliver ==
    /\ ~Idle
    /\ req' = NoRequest
    /\ resp' = NoResponse
    /\ calls' = <<>>
    /\ queryset' = NoQueryset
    /\ UNCHANGED <<issues, views, queue>>

(***************************************************************************)
(* Specifications                                                          *)
(***************************************************************************)
InitIdle ==
    /\ queue = <<>>
    /\ req = NoRequest
    /\ resp = NoResponse
    /\ calls = <<>>
    /\ queryset = NoQueryset

\* any issue store, the saved views of the fixture
Init ==
    /\ issues \in IssueStores
    /\ views = SavedViews
    /\ InitIdle

\* a full issue store, no saved view yet
InitViews ==
    /\ issues = IssuePool
    /\ views = {}
    /\ InitIdle

\* the analytics queries
NextQuery == AnalyticsGet \/ SavedGet \/ DefaultGet \/ Deliver
SpecQuery == Init /\ [][NextQuery]_vars

\* the saved-view store: the viewset and the endpoint that replays a view
NextViews ==
    ViewCreate \/ ViewList \/ ViewRetrieve \/ ViewUpdate \/ ViewDestroy \/ SavedGet \/ Deliver
SpecViews == InitViews /\ [][NextViews]_vars

\* the endpoints that validate the axes of the request
NextExport == ExportPost \/ AnalyticsGet \/ Deliver
SpecExport == InitViews /\ [][NextExport]_vars

\* all handlers together; the three specifications above are its parts, each
\* over the state its handlers read and write
Next ==
    \/ AnalyticsGet \/ SavedGet \/ DefaultGet \/ ExportPost
    \/ ViewCreate \/ ViewList \/ ViewRetrieve \/ ViewUpdate \/ ViewDestroy
    \/ Deliver
Spec == InitViews /\ [][Next]_vars

(***************************************************************************)
(* Properties                                                              *)
(***************************************************************************)
Range(s) == {s[k] : k \in DOMAIN s}

Handled(handler) == ~Idle /\ req.handler = handler
Succeeded(handler) == Handled(handler) /\ resp.status = HTTP_200_OK

\* a parameter that is not sent, or sent empty
Missing(d, key) == key \notin DOMAIN d \/ d[key] = ""

\* the parameters that carry the axes of the request being answered
AxisSource ==
    IF req.handler = "ExportAnalyticsEndpoint.post" THEN req.data ELSE req.GET

\* the saved view a SavedAnalyticEndpoint request resolves to
ReplayedView == CHOOSE v \in views : v.id = req.analytic_id /\ v.workspace = req.slug

\* the x axis a successful analytics response is grouped by
GroupedBy ==
    IF req.handler = "SavedAnalyticEndpoint.get" THEN ReplayedView.query_dict.x_axis
    ELSE req.GET.x_axis

GroupSum == SumOver(resp.data.distribution, [g \in resp.data.distribution |-> g.count])

Plotted == Succeeded("AnalyticsEndpoint.get") \/ Succeeded("SavedAnalyticEndpoint.get")

C2_UnknownViewDoesNotExist ==
    ( /\ Handled("SavedAnalyticEndpoint.get")
      /\ ~\E v \in views : v.id = req.analytic_id /\ v.workspace = req.slug )
    => /\ resp.status = HTTP_400_BAD_REQUEST
       /\ resp.data = [error |-> "Analytic View Does not exist"]
       /\ calls = <<"AnalyticView.objects">>
       /\ DOMAIN queryset = {}

C2_Witness ==
    /\ Handled("SavedAnalyticEndpoint.get")
    /\ \E v \in views :
          /\ v.id = req.analytic_id
          /\ v.workspace # req.slug
          /\ "x_axis" \notin DOMAIN v.query_dict
    /\ resp = DoesNotExist

PassesFilters(i) ==
    /\ i.workspace = req.slug
    /\ req.project # {} => i.project \in req.project
    /\ req.cycle # {} => \E c \in req.cycle : c \in i.cycles
    /\ req.module # {} => \E m \in req.module : m \in i.modules

TotalOf(response) ==
    IF req.handler = "AnalyticsEndpoint.get" THEN response.data.total
    ELSE response.data.total_issues

C4_FiltersAreConjunctive ==
    (Succeeded("AnalyticsEndpoint.get") \/ Succeeded("DefaultAnalyticsEndpoint.get"))
    => /\ DOMAIN queryset = issues
       /\ \A i \in issues : queryset[i] > 0 <=> PassesFilters(i)
       /\ TotalOf(resp) >= Cardinality({i \in issues : PassesFilters(i)})
       /\ TotalOf(resp) = 0 <=> ~\E i \in issues : PassesFilters(i)

C4_Witness ==
    /\ Succeeded("DefaultAnalyticsEndpoint.get")
    /\ req.project # {} /\ req.cycle # {} /\ req.module # {}
    /\ \E i \in issues : queryset[i] > 0
    /\ \E i \in issues :
          /\ i.workspace = req.slug
          /\ i.project \in req.project
          /\ \E c \in req.cycle : c \in i.cycles
          /\ queryset[i] = 0

\* C5: in every successful response of DefaultAnalyticsEndpoint.get,
\* open_issues <= total_issues, also when a cycle or module filter matches
\* an issue more than once.
C5_OpenAtMostTotal ==
    Succeeded("DefaultAnalyticsEndpoint.get")
    => resp.data.open_issues <= resp.data.total_issues

C5_Witness ==
    /\ Succeeded("DefaultAnalyticsEndpoint.get")
    /\ \E i \in issues : queryset[i] >= 2 /\ StateOf(i).group \in OpenGroups
    /\ resp.data.open_issues >= 2
    /\ resp.data.open_issues < resp.data.total_issues

\* the job an export request asks for
ExportJob(request) ==
    [email |-> request.user.email, data |-> request.data, slug |-> request.slug]

BothAxes(request) ==
    ~Missing(request.data, "x_axis") /\ ~Missing(request.data, "y_axis")

Acknowledged(response, request) ==
    /\ response.status = HTTP_200_OK
    /\ response.data = ExportMessage(request.user.email)

\* C6 as stated: with both axes present ExportAnalyticsEndpoint.post enqueues
\* one export job carrying the user's email, the raw payload and the slug and
\* returns the acknowledgement, without reading the issue store or invoking
\* the distribution builder.
C6_ExportAlwaysEnqueues ==
    (Handled("ExportAnalyticsEndpoint.post") /\ BothAxes(req))
    => /\ Acknowledged(resp, req)
       /\ calls = <<"analytic_export_task.delay">>
       /\ Len(queue) >= 1
       /\ queue[Len(queue)] = ExportJob(req)

\* C6 as amended: ExportAnalyticsEndpoint.post never reads the issue store
\* nor invokes the distribution builder.  With both axes present it calls the
\* enqueue once; when the enqueue is accepted, exactly one job carrying the
\* email, the raw payload and the slug is appended and the acknowledgement is
\* returned; when the enqueue raises, no job is added and the generic error
\* is returned.  An acknowledgement is returned only with the job enqueued.
C6_ExportEnqueuesUnlessDelayRaises ==
    [][ (Idle /\ req'.handler = "ExportAnalyticsEndpoint.post")
        => /\ "Issue.objects" \notin Range(calls')
           /\ "build_graph_plot" \notin Range(calls')
           /\ DOMAIN queryset' = {}
           /\ (BothAxes(req') /\ ~req'.delay_raises)
                => /\ Acknowledged(resp', req')
                   /\ calls' = <<"analytic_export_task.delay">>
                   /\ queue' = Append(queue, ExportJob(req'))
           /\ (BothAxes(req') /\ req'.delay_raises)
                => /\ resp'.status = HTTP_400_BAD_REQUEST
                   /\ resp'.data = [error |-> "Something went wrong please try again later"]
                   /\ calls' = <<"analytic_export_task.delay", "capture_exception">>
                   /\ queue' = queue
           /\ ~BothAxes(req') => queue' = queue
           /\ resp'.status = HTTP_200_OK => queue' = Append(queue, ExportJob(req'))
      ]_vars

C6_Witness ==
    /\ Handled("ExportAnalyticsEndpoint.post")
    /\ Acknowledged(resp, req)
    /\ Len(queue) = 2
    /\ queue[2] = ExportJob(req)
    /\ queue[1] # queue[2]

\* C7: in every handler an unexpected error is caught at the handler
\* boundary, reported to the error-tracking collaborator (capture_exception),
\* and answered with the generic error body and a client-error status.
C7_UnexpectedErrorIsReported ==
    ( /\ ~Idle
      /\ req.handler \in {"AnalyticsEndpoint.get", "SavedAnalyticEndpoint.get",
                          "ExportAnalyticsEndpoint.post", "DefaultAnalyticsEndpoint.get"}
      /\ resp.data = [error |-> "Something went wrong please try again later"] )
    => /\ resp.status = HTTP_400_BAD_REQUEST
       /\ "capture_exception" \in Range(calls)

\* C8: the viewset is scoped to the workspace of the path.  A created view
\* belongs to the workspace of the slug whatever workspace the body names;
\* list and retrieve return only views of the slug's workspace; update and
\* delete change or remove only the view of the slug's workspace they name.
C8_ViewsetScopedToSlug ==
    [][ Idle =>
        /\ req'.handler = "AnalyticViewViewset.create"
             => /\ resp'.status = HTTP_201_CREATED
                /\ resp'.data.workspace = req'.slug
                /\ resp'.data \notin views
                /\ views' = views \cup {resp'.data}
        /\ req'.handler = "AnalyticViewViewset.list"
             => /\ resp'.data.results = {v \in views : v.workspace = req'.slug}
                /\ views' = views
        /\ (req'.handler = "AnalyticViewViewset.retrieve" /\ resp'.status = HTTP_200_OK)
             => /\ resp'.data \in views
                /\ resp'.data.workspace = req'.slug
                /\ resp'.data.id = req'.pk
        /\ \A v \in views \ views' :
             /\ req'.handler \in {"AnalyticViewViewset.update", "AnalyticViewViewset.destroy"}
             /\ v.workspace = req'.slug
             /\ v.id = req'.pk
      ]_vars

C8_Witness ==
    /\ Handled("AnalyticViewViewset.create")
    /\ req.data.workspace # req.slug
    /\ resp.data.workspace = req.slug
    /\ \E v \in views : v.workspace # req.slug

\* C9: in a successful AnalyticsEndpoint.get response extras.colors is empty
\* unless x_axis is state__name, state__group or labels__name; when attached,
\* the colors are those of the states / labels of the slug's workspace,
\* restricted to the supplied project ids when any are given.
InScope(r) ==
    /\ r.workspace = req.slug
    /\ req.project # {} => r.project \in req.project

C9_ColorsOnlyForStateAndLabelAxes ==
    Succeeded("AnalyticsEndpoint.get") =>
        LET x_axis == req.GET.x_axis
            colors == resp.data.extras.colors
        IN  /\ x_axis \notin {"state__name", "state__group", "labels__name"} => colors = {}
            /\ x_axis = "state__name" =>
                 colors = {[name |-> r.name, color |-> r.color] : r \in {s \in State : InScope(s)}}
            /\ x_axis = "state__group" =>
                 colors = {[group |-> r.group, color |-> r.color] : r \in {s \in State : InScope(s)}}
            /\ x_axis = "labels__name" =>
                 colors = {[name |-> r.name, color |-> r.color] : r \in {l \in Label : InScope(l)}}

C9_Witness ==
    /\ Succeeded("AnalyticsEndpoint.get")
    /\ req.GET.x_axis = "state__group"
    /\ req.project = {"p2", "p3"}
    /\ req.slug = "w1"
    /\ resp.data.extras.colors = {[group |-> "started", color |-> "#f59e0b"]}

\* C10: every issue counted in the total or distribution of an analytics
\* handler called with slug S belongs to workspace S; SavedAnalyticEndpoint.get
\* never counts an issue of another workspace, whatever the stored filter.
C10_CountedIssuesAreInWorkspace ==
    ( \/ Succeeded("AnalyticsEndpoint.get")
      \/ Succeeded("SavedAnalyticEndpoint.get")
      \/ Succeeded("DefaultAnalyticsEndpoint.get") )
    => \A i \in DOMAIN queryset : queryset[i] > 0 => i.workspace = req.slug

====
